---- MODULE Spec2Model ----
(***************************************************************************)
(* ArcReactor: the middleware chain (proto/middleware.rs) and the dispatch *)
(* entry RootService::call (core/rootservice.rs).                          *)
(*                                                                         *)
(* A dispatch is one call of RootService::call and the polling of the      *)
(* future it returns.  The future is service.call(request, res) wrapped in *)
(* catch_unwind and then(..).  A chain Vec<Box<MiddleWare<T>>> folds its   *)
(* steps into nested and_then futures; a step is invoked inside the        *)
(* and_then closure, i.e. while the future is polled.                      *)
(*                                                                         *)
(* FileStream (core/filestream.rs) wraps one file as a Stream of chunks    *)
(* and as a Sink of chunks, over one buffer.                               *)
(***************************************************************************)
EXTENDS Integers, Sequences, FiniteSets, TLC

\* ---------------------------------------------------------------- bounds
MaxSteps == 3       \* most steps configured on one route, both chains together
MaxDisk == 4        \* most bytes the file can hold

Dispatches == {1, 2}            \* requests the transport may deliver
Inputs == {"t1", "t2"}          \* what an inbound hyper::Request carries

None == "None"
Poison == "t1"                  \* the input on which a faulty step panics

Files == {<<>>, <<"x">>, <<"x", "y">>}      \* what the wrapped file holds
Chunks == {<<"a">>, <<"b">>, <<"a", "b">>}  \* what a sender passes

\* ------------------------------------------------------- program constants
Unauthorized == 401
InternalServerError == 500

\* ---------------------------------------------------------------- state
VARIABLES
    service,        \* RootService.service: [before, handler, after]
    configured,     \* the service as the routes were configured at start
    alive,          \* the Vecs of service are not yet dropped by their owner
    workerAlive,    \* no panic has unwound out of a polled future
    pc,             \* pc[d]: stage of dispatch d
    inbound,        \* inbound[d]: the hyper::Request delivered for d
    cur,            \* cur[d]: the payload the fold currently holds
    res,            \* res[d]: the partially built Response kept for the handler
    idx,            \* idx[d]: next step of the chain being folded
    running,        \* running[d]: the step or handler invoked and not completed
    cnt,            \* cnt[d]: invocation counters [before, handler, after]
    trace,          \* trace[d]: the calls and returns of dispatch d, in order
    out,            \* out[d]: what the returned future resolved with
    dangling,       \* dangling[d]: a step was invoked through a dropped Vec
    stream,         \* the FileStream: [file, buf, flushed]
    hist            \* what the users of the FileStream did and saw so far

dispatchVars == <<service, configured, alive, workerAlive, pc, inbound, cur, res, idx, running,
                  cnt, trace, out, dangling>>

fileVars == <<stream, hist>>

vars == <<service, configured, alive, workerAlive, pc, inbound, cur, res, idx, running, cnt, trace,
          out, dangling, stream, hist>>

\* ------------------------------------------------------------ the payloads
\* hyper::Request -> Request (req.into()): nothing attached yet.
Request_from(hreq) ==
    [input |-> hreq, handle |-> None, remote |-> None, ext |-> None]

\* Response::new(): an empty 200 response without a reactor handle.
Response_new == [status |-> 200, body |-> "", hdr |-> 0, handle |-> None]

with_status(r, s) == [r EXCEPT !.status = s]

\* Response -> hyper::Response (res.into()): the wrapped hyper response; the
\* reactor handle is not part of it.
into(r) == [status |-> r.status, body |-> r.body, hdr |-> r.hdr]

\* hyper::Response::new()
hyper_Response_new == [status |-> 200, body |-> "", hdr |-> 0]

\* Result<T, Response> and the outcome of polling a future to its end.
Ok(v) == [tag |-> "Ok", val |-> v]
Err(v) == [tag |-> "Err", val |-> v]
Panic == [tag |-> "Panic", val |-> None]

\* ---------------------------------------------------------------- steps
\* MiddleWare<Request> implementations a chain is configured with.
ReqKinds == {"pass", "tag", "deny", "panic"}

\* MiddleWare<Request>::call of one step.
MiddleWare_Request_call(kind, req) ==
    CASE kind = "pass" -> Ok(req)
      [] kind = "tag" -> Ok([req EXCEPT !.ext = req.input])
      [] kind = "deny" -> Err(with_status(Response_new, Unauthorized))
      [] OTHER -> IF req.input = Poison THEN Panic ELSE Ok(req)

\* MiddleWare<Response> implementations a chain is configured with.
ResKinds == {"mark", "replace", "panic"}

\* MiddleWare<Response>::call of one step.
MiddleWare_Response_call(kind, r) ==
    CASE kind = "mark" -> Ok([r EXCEPT !.hdr = @ + 1])
      [] kind = "replace" -> Err(with_status(Response_new, 403))
      [] OTHER -> Panic

\* ArcService implementations (route handlers).
HandlerKinds == {"ok", "err", "panic"}

\* ArcService::call of the route handler.
ArcService_call(kind, req, r) ==
    CASE kind = "ok" ->
            Ok([r EXCEPT !.body = IF req.ext = None THEN "hi" ELSE req.ext])
      [] kind = "err" -> Err(with_status(r, Unauthorized))
      [] OTHER -> IF req.input = Poison THEN Panic ELSE Ok(r)

\* ------------------------------------------------------------- chains
SeqsUpTo(S, n) == UNION {[1..k -> S] : k \in 0..n}

\* The steps visited last to first, as by iter().rev().
extend_lifetime_rev(vec, i, kinds) ==
    IF alive THEN {vec[Len(vec) + 1 - i]} ELSE kinds

\* The reference the fold keeps to step i of a Vec: extend_lifetime turns the
\* borrow into a 'static one, so it is read even after the Vec was dropped,
\* and then it yields whatever the freed memory holds.
extend_lifetime(vec, i, kinds) == IF alive THEN {vec[i]} ELSE kinds

\* The Vec consumed by the fold, as by drain(..).
iter_drain(vec) == <<>>

\* extended.iter(): the fold borrows the steps, the Vec stays as it is.
iter(vec) == vec

\* The fold seeded with a payload that lost the attached reactor handle.
Vec_call_seed_rebuilt(vec, payload) ==
    [idx |-> 1, payload |-> [payload EXCEPT !.handle = None]]

\* Vec<Box<MiddleWare<T>>>::call: the fold is seeded with the payload as an
\* already resolved Ok and wraps one and_then per step, first step first.
Vec_call(vec, payload) == [idx |-> 1, payload |-> payload]

\* and_then replaced by a combinator that runs the closure on Err as well.
and_then_on_err(o) == o.tag \in {"Ok", "Err"}

\* Future::and_then: the closure runs on Ok only, an Err passes through.
and_then(o) == o.tag = "Ok"

\* The fold taken as finished one step early.
fold_done_early(vec, i) == i >= Len(vec)

\* The fold over vec has no closure left after step i.
fold_done(vec, i) == i > Len(vec)

\* ------------------------------------------------------ dispatch entry
\* The fields of the RootService of the connection that delivers dispatch d.
RootService(d) ==
    [remote_ip |-> IF d = 1 THEN "10.0.0.1" ELSE "10.0.0.2", handle |-> "core"]

\* The connection's data not attached before the service is called.
attach_nothing(request, root) == request

\* request.handle = Some(self.handle.clone()); request.remote =
\* Some(self.remote_ip)
attach(request, root) ==
    [request EXCEPT !.handle = root.handle, !.remote = root.remote_ip]

\* res.handle = Some(self.handle.clone())
attach_handle(r, root) == [r EXCEPT !.handle = root.handle]

\* No catch_unwind around the service future: a panic keeps unwinding.
catch_unwind_missing(o) == IF o.tag = "Panic" THEN o ELSE Ok(o)

\* catch_unwind on the service future: a panic raised while polling becomes
\* Err(payload), anything else Ok(result).
catch_unwind(o) == IF o.tag = "Panic" THEN Err(None) ELSE Ok(o)

\* The closure with a caught panic sent on the error channel.
then_fault_as_error(result) ==
    IF result.tag = "Ok"
    THEN Ok(into(result.val.val))
    ELSE Err("hyper::Error")

\* The closure with only Ok(Ok(res)) delivered as it is.
then_err_as_500(result) ==
    IF result.tag = "Ok" /\ result.val.tag = "Ok"
    THEN Ok(into(result.val.val))
    ELSE Ok(with_status(hyper_Response_new, InternalServerError))

\* The closure given to then(): every result is sent on the success channel.
then(result) ==
    IF result.tag = "Ok"
    THEN Ok(into(result.val.val))
    ELSE Ok(with_status(hyper_Response_new, InternalServerError))

\* What the future returned by RootService::call resolves with when the
\* service future ends with o.
responseFuture(o) ==
    LET caught == catch_unwind(o)
    IN  IF caught.tag \in {"Ok", "Err"} THEN then(caught) ELSE caught

\* ------------------------------------------------------------ FileStream
Min(a, b) == IF a < b THEN a ELSE b
Max(a, b) == IF a < b THEN b ELSE a

\* The file with bytes stored at its cursor.
overwrite(file, bytes) ==
    [data |-> [i \in 1..Max(Len(file.data), file.pos + Len(bytes)) |->
                 IF i > file.pos /\ i <= file.pos + Len(bytes)
                 THEN bytes[i - file.pos]
                 ELSE file.data[i]],
     pos |-> file.pos + Len(bytes)]

\* File::poll_read(&mut [u8]) on a slice of len bytes: not ready, an error,
\* or n bytes read at the cursor; n = 0 only at the end of the file or for
\* an empty slice.
poll_read(file, len) ==
    LET most == Min(len, Len(file.data) - file.pos)
    IN  {[tag |-> t, n |-> 0, bytes |-> <<>>, file |-> file] :
            t \in {"NotReady", "Err"}}
        \cup
        {[tag |-> "Ready", n |-> n,
          bytes |-> SubSeq(file.data, file.pos + 1, file.pos + n),
          file |-> [file EXCEPT !.pos = @ + n]] :
            n \in IF most = 0 THEN {0} ELSE 1..most}

\* File::poll_write(&[u8]): not ready, an error, or the first n of the
\* bytes written at the cursor; n may be less than all of them.
poll_write(file, bytes) ==
    LET most == Min(Len(bytes), MaxDisk - file.pos)
    IN  {[tag |-> t, n |-> 0, file |-> file] : t \in {"NotReady", "Err"}}
        \cup
        {[tag |-> "Ready", n |-> n,
          file |-> overwrite(file, SubSeq(bytes, 1, n))] :
            n \in IF Len(bytes) = 0 THEN {0} ELSE 1..most}

\* FileStream::new
FileStream_new(file) == [file |-> file, buf |-> <<>>, flushed |-> TRUE]

\* Stream::poll with r the outcome of file.poll_read(&mut self.buf): the
\* slice handed to the file is the buffer's content, buf.len() bytes long.
poll(self, r) ==
    IF r.tag # "Ready"
    THEN [self |-> self, tag |-> r.tag, val |-> <<>>]
    ELSE LET read == r.bytes \o SubSeq(self.buf, r.n + 1, Len(self.buf))
         IN  IF r.n > 0
             THEN [self |-> [self EXCEPT !.file = r.file, !.buf = <<>>],
                   tag |-> "Some", val |-> read]
             ELSE [self |-> [self EXCEPT !.file = r.file, !.buf = read],
                   tag |-> "None", val |-> <<>>]

\* Sink::poll_complete with w the outcome of file.poll_write(&self.buf).
poll_complete(self, w) ==
    IF w.tag # "Ready"
    THEN [self |-> self, tag |-> w.tag]
    ELSE [self |-> [self EXCEPT !.file = w.file, !.flushed = TRUE],
          tag |-> "Ready"]

\* start_send that buffers the chunk it hands back.
start_send_keeps_chunk(self, chunk, w) ==
    LET done == IF ~self.flushed
                THEN poll_complete(self, w)
                ELSE [self |-> self, tag |-> "Ready"]
    IN  IF done.tag = "Err"
        THEN [self |-> done.self, tag |-> "Err", val |-> <<>>]
        ELSE [self |-> [done.self EXCEPT !.buf = @ \o chunk, !.flushed = FALSE],
              tag |-> done.tag,
              val |-> IF done.tag = "NotReady" THEN chunk ELSE <<>>]

\* Sink::start_send with w the outcome of the write poll_complete makes
\* when the buffer is not flushed.
start_send(self, chunk, w) ==
    LET done == IF ~self.flushed
                THEN poll_complete(self, w)
                ELSE [self |-> self, tag |-> "Ready"]
    IN  CASE done.tag = "NotReady" ->
                [self |-> done.self, tag |-> "NotReady", val |-> chunk]
          [] done.tag = "Err" ->
                [self |-> done.self, tag |-> "Err", val |-> <<>>]
          [] OTHER ->
                [self |-> [done.self EXCEPT !.buf = @ \o chunk,
                                            !.flushed = FALSE],
                 tag |-> "Ready", val |-> <<>>]

\* Nothing done yet on a FileStream made of a file holding data.
NoHistory(data) ==
    [content |-> data, used |-> {}, emitted |-> <<>>, sent |-> <<>>,
     wrote |-> <<>>, pending |-> FALSE,
     ret |-> [op |-> "new", arg |-> <<>>, io |-> "none", tag |-> "Ready",
              val |-> <<>>]]

\* -------------------------------------------------------------- dispatch
\* The slot of a future that is not built yet: no Request, no Response.
Unbuilt == [input |-> None, handle |-> None]

ZeroCnt ==
    [before |-> [i \in 1..Len(service.before) |-> 0],
     handler |-> 0,
     after |-> [i \in 1..Len(service.after) |-> 0]]

\* No request delivered yet.
NoDispatch ==
    /\ configured = service
    /\ alive = TRUE
    /\ workerAlive = TRUE
    /\ pc = [d \in Dispatches |-> "Idle"]
    /\ inbound = [d \in Dispatches |-> None]
    /\ cur = [d \in Dispatches |-> Unbuilt]
    /\ res = [d \in Dispatches |-> Unbuilt]
    /\ idx = [d \in Dispatches |-> 0]
    /\ running = [d \in Dispatches |-> None]
    /\ cnt = [d \in Dispatches |-> ZeroCnt]
    /\ trace = [d \in Dispatches |-> <<>>]
    /\ out = [d \in Dispatches |-> <<>>]
    /\ dangling = [d \in Dispatches |-> FALSE]

Init ==
    /\ service \in {s \in [before : SeqsUpTo(ReqKinds, MaxSteps),
                          handler : HandlerKinds,
                          after : SeqsUpTo(ResKinds, MaxSteps)] :
                        Len(s.before) + Len(s.after) <= MaxSteps}
    /\ NoDispatch
    /\ stream = FileStream_new([data |-> <<>>, pos |-> 0])
    /\ hist = NoHistory(<<>>)

\* A caught panic that also ends every other dispatch in flight.
Resolve_fault_ends_all(d, o) ==
    LET r == responseFuture(o)
        hit(e) == e = d \/ (o.tag = "Panic" /\ pc[e] \notin {"Idle", "Completed"})
    IN  /\ out' = [e \in Dispatches |->
                     IF hit(e) THEN Append(out[e], r) ELSE out[e]]
        /\ workerAlive' = (r.tag # "Panic")
        /\ pc' = [e \in Dispatches |-> IF hit(e) THEN "Completed" ELSE pc[e]]

\* The returned future resolves: out gets the value, a panic that was not
\* caught unwinds into the worker's event loop.
Resolve(d, o) ==
    LET r == responseFuture(o)
    IN  /\ out' = [out EXCEPT ![d] = Append(@, r)]
        /\ workerAlive' = (r.tag # "Panic")
        /\ pc' = [pc EXCEPT ![d] = "Completed"]

\* One Request slot shared by the dispatches whose Request chain is running.
move_payload_shared(d, v) ==
    [e \in Dispatches |->
        IF e = d \/ (pc[d] = "RequestChainRunning" /\ pc[e] = pc[d])
        THEN v
        ELSE cur[e]]

\* move |req|: the payload is moved into the closure of dispatch d's future.
move_payload(d, v) == [cur EXCEPT ![d] = v]

Call(chain, i, k, arg) ==
    [ev |-> "call", chain |-> chain, i |-> i, step |-> k, val |-> arg]
Ret(chain, i, o) ==
    [ev |-> "ret", chain |-> chain, i |-> i, tag |-> o.tag, val |-> o.val]

\* RootService::call: build Request and Response, attach the connection's
\* data, build the service future (the folds run here, no step does).
RootService_call(d) ==
    /\ workerAlive /\ alive
    /\ pc[d] = "Idle"
    /\ \E hreq \in Inputs :
          LET request == attach(Request_from(hreq), RootService(d))
              fut == Vec_call(service.before, request)
          IN  /\ inbound' = [inbound EXCEPT ![d] = hreq]
              /\ cur' = move_payload(d, fut.payload)
              /\ idx' = [idx EXCEPT ![d] = fut.idx]
    /\ service' = [service EXCEPT !.before = iter(@)]
    /\ res' = [res EXCEPT ![d] = attach_handle(Response_new, RootService(d))]
    /\ pc' = [pc EXCEPT ![d] = "Received"]
    /\ UNCHANGED <<configured, alive, workerAlive, running, cnt, trace, out,
                   dangling>>
    /\ UNCHANGED fileVars

\* Vec<Box<MiddleWare<Request>>>::call, the and_then closure of step idx[d]:
\* the previous future gave Ok(req), the step is invoked with req.
before_call(d) ==
    /\ workerAlive
    /\ pc[d] \in {"Received", "RequestChainRunning"}
    /\ running[d] = None
    /\ ~fold_done(service.before, idx[d])
    /\ \E k \in extend_lifetime(service.before, idx[d], ReqKinds) :
          /\ running' = [running EXCEPT ![d] = k]
          /\ trace' = [trace EXCEPT ![d] =
                         Append(@, Call("before", idx[d], k, cur[d]))]
    /\ pc' = [pc EXCEPT ![d] = "RequestChainRunning"]
    /\ cnt' = [cnt EXCEPT ![d].before[idx[d]] = @ + 1]
    /\ dangling' = [dangling EXCEPT ![d] = @ \/ ~alive]
    /\ UNCHANGED <<service, configured, alive, inbound, workerAlive, cur, res, idx, out>>
    /\ UNCHANGED fileVars

\* The future of the invoked Request step completes.
before_poll(d) ==
    /\ workerAlive
    /\ pc[d] = "RequestChainRunning"
    /\ running[d] # None
    /\ LET o == MiddleWare_Request_call(running[d], cur[d])
       IN  /\ trace' = [trace EXCEPT ![d] = Append(@, Ret("before", idx[d], o))]
           /\ running' = [running EXCEPT ![d] = None]
           /\ CASE o.tag = "Panic" ->
                     /\ pc' = [pc EXCEPT ![d] = "Faulted"]
                     /\ UNCHANGED <<cur, idx, out, workerAlive>>
                [] o.tag # "Panic" /\ and_then(o) ->
                     /\ cur' = move_payload(d, o.val)
                     /\ idx' = [idx EXCEPT ![d] = @ + 1]
                     /\ UNCHANGED <<pc, out, workerAlive>>
                [] OTHER ->
                     /\ Resolve(d, o)
                     /\ UNCHANGED <<cur, idx>>
    /\ UNCHANGED <<service, configured, alive, inbound, res, cnt, dangling>>
    /\ UNCHANGED fileVars

\* ArcHandler::call, the and_then closure after the Request chain: the chain
\* gave Ok(req), the route handler is invoked with req and the kept res.
handler_call(d) ==
    /\ workerAlive
    /\ pc[d] \in {"Received", "RequestChainRunning"}
    /\ running[d] = None
    /\ fold_done(service.before, idx[d])
    /\ running' = [running EXCEPT ![d] = service.handler]
    /\ pc' = [pc EXCEPT ![d] = "HandlerRunning"]
    /\ cnt' = [cnt EXCEPT ![d].handler = @ + 1]
    /\ trace' = [trace EXCEPT ![d] = Append(@, Call("handler", 1, service.handler, cur[d]))]
    /\ UNCHANGED <<service, configured, alive, inbound, workerAlive, cur, res, idx, out, dangling>>
    /\ UNCHANGED fileVars

\* The future of the route handler completes.  Ok(res) feeds the Response
\* chain (the fold of an empty or absent chain is already resolved), Err(res)
\* skips it.
handler_poll(d) ==
    /\ workerAlive
    /\ pc[d] = "HandlerRunning"
    /\ running[d] # None
    /\ LET o == ArcService_call(running[d], cur[d], res[d])
       IN  /\ trace' = [trace EXCEPT ![d] = Append(@, Ret("handler", 1, o))]
           /\ running' = [running EXCEPT ![d] = None]
           /\ CASE o.tag = "Panic" ->
                     /\ pc' = [pc EXCEPT ![d] = "Faulted"]
                     /\ UNCHANGED <<cur, idx, out, workerAlive>>
                [] o.tag = "Ok" /\ ~fold_done(service.after, 1) ->
                     LET fut == Vec_call(service.after, o.val)
                     IN  /\ cur' = move_payload(d, fut.payload)
                         /\ idx' = [idx EXCEPT ![d] = fut.idx]
                         /\ pc' = [pc EXCEPT ![d] = "ResponseChainRunning"]
                         /\ UNCHANGED <<out, workerAlive>>
                [] OTHER ->
                     /\ Resolve(d, IF o.tag = "Ok"
                                   THEN Ok(Vec_call(service.after, o.val).payload)
                                   ELSE o)
                     /\ UNCHANGED <<cur, idx>>
           /\ service' = IF o.tag = "Ok"
                         THEN [service EXCEPT !.after = iter(@)]
                         ELSE service
    /\ UNCHANGED <<configured, alive, inbound, res, cnt, dangling>>
    /\ UNCHANGED fileVars

\* Vec<Box<MiddleWare<Response>>>::call, the and_then closure of step idx[d]:
\* the previous future gave Ok(res), the step is invoked with res.
after_call(d) ==
    /\ workerAlive
    /\ pc[d] = "ResponseChainRunning"
    /\ running[d] = None
    /\ ~fold_done(service.after, idx[d])
    /\ \E k \in extend_lifetime(service.after, idx[d], ResKinds) :
          /\ running' = [running EXCEPT ![d] = k]
          /\ trace' = [trace EXCEPT ![d] =
                         Append(@, Call("after", idx[d], k, cur[d]))]
    /\ cnt' = [cnt EXCEPT ![d].after[idx[d]] = @ + 1]
    /\ dangling' = [dangling EXCEPT ![d] = @ \/ ~alive]
    /\ UNCHANGED <<service, configured, alive, inbound, workerAlive, pc, cur, res, idx, out>>
    /\ UNCHANGED fileVars

\* The future of the invoked Response step completes; after the last step
\* the fold is resolved.
after_poll(d) ==
    /\ workerAlive
    /\ pc[d] = "ResponseChainRunning"
    /\ running[d] # None
    /\ LET o == MiddleWare_Response_call(running[d], cur[d])
       IN  /\ trace' = [trace EXCEPT ![d] = Append(@, Ret("after", idx[d], o))]
           /\ running' = [running EXCEPT ![d] = None]
           /\ CASE o.tag = "Panic" ->
                     /\ pc' = [pc EXCEPT ![d] = "Faulted"]
                     /\ UNCHANGED <<cur, idx, out, workerAlive>>
                [] o.tag # "Panic" /\ and_then(o)
                        /\ ~fold_done(service.after, idx[d] + 1) ->
                     /\ cur' = move_payload(d, o.val)
                     /\ idx' = [idx EXCEPT ![d] = @ + 1]
                     /\ UNCHANGED <<pc, out, workerAlive>>
                [] OTHER ->
                     /\ Resolve(d, o)
                     /\ UNCHANGED <<cur, idx>>
    /\ UNCHANGED <<service, configured, alive, inbound, res, cnt, dangling>>
    /\ UNCHANGED fileVars

\* A dispatch also ended with 500 while a step or the handler is pending.
unwind_or_timeout(d) ==
    /\ workerAlive
    /\ pc[d] = "Faulted" \/ running[d] # None
    /\ Resolve(d, Panic)
    /\ UNCHANGED <<service, configured, alive, inbound, cur, res, idx, running, cnt, trace, dangling>>
    /\ UNCHANGED fileVars

\* The panic raised while polling reaches catch_unwind of RootService::call.
unwind(d) ==
    /\ workerAlive
    /\ pc[d] = "Faulted"
    /\ Resolve(d, Panic)
    /\ UNCHANGED <<service, configured, alive, inbound, cur, res, idx, running, cnt, trace, dangling>>
    /\ UNCHANGED fileVars

\* The owner of the chains drops them while futures built from them live on.
drop ==
    /\ alive
    /\ alive' = FALSE
    /\ UNCHANGED <<service, configured, workerAlive, inbound, pc, cur, res, idx, running, cnt, trace,
                   out, dangling>>
    /\ UNCHANGED fileVars

Step(d) ==
    \/ RootService_call(d)
    \/ before_call(d)
    \/ before_poll(d)
    \/ handler_call(d)
    \/ handler_poll(d)
    \/ after_call(d)
    \/ after_poll(d)
    \/ unwind(d)

Next == \E d \in Dispatches : Step(d)

\* The chains live as long as the process: the route table is never released.
Spec == Init /\ [][Next]_vars

NextDrop == Step(1) \/ drop

\* One dispatch, and the owner of the chains may release them at any time.
SpecDrop == Init /\ [][NextDrop]_vars

\* ------------------------------------------------ FileStream in use
\* A consumer polls the stream.
Stream_poll ==
    /\ \E r \in poll_read(stream.file, Len(stream.buf)) :
          LET o == poll(stream, r)
          IN  /\ stream' = o.self
              /\ hist' = [hist EXCEPT
                     !.used = @ \cup {"stream"},
                     !.emitted = @ \o o.val,
                     !.ret = [op |-> "poll", arg |-> <<>>, io |-> r.tag,
                              tag |-> o.tag, val |-> o.val]]
    /\ UNCHANGED dispatchVars

\* A producer hands a chunk to the sink.
Sink_start_send ==
    /\ \E chunk \in Chunks :
       \E w \in IF stream.flushed
                THEN {[tag |-> "none", n |-> 0, file |-> stream.file]}
                ELSE poll_write(stream.file, stream.buf) :
          LET o == start_send(stream, chunk, w)
          IN  /\ stream' = o.self
              /\ hist' = [hist EXCEPT
                     !.used = @ \cup {"sink"},
                     !.sent = IF o.tag = "Ready" THEN @ \o chunk ELSE @,
                     !.wrote = @ \o SubSeq(stream.buf, 1, w.n),
                     !.pending = IF o.tag = "Ready" THEN TRUE ELSE @,
                     !.ret = [op |-> "start_send", arg |-> chunk,
                              io |-> w.tag, tag |-> o.tag, val |-> o.val]]
    /\ UNCHANGED dispatchVars

\* A producer asks the sink to flush.
Sink_poll_complete ==
    /\ \E w \in poll_write(stream.file, stream.buf) :
          LET o == poll_complete(stream, w)
          IN  /\ stream' = o.self
              /\ hist' = [hist EXCEPT
                     !.used = @ \cup {"sink"},
                     !.wrote = @ \o SubSeq(stream.buf, 1, w.n),
                     !.pending = IF o.tag = "Ready" THEN FALSE ELSE @,
                     !.ret = [op |-> "poll_complete", arg |-> <<>>,
                              io |-> w.tag, tag |-> o.tag, val |-> <<>>]]
    /\ UNCHANGED dispatchVars

\* A FileStream made of a file, no request in flight.
FileInit ==
    /\ service = [before |-> <<>>, handler |-> "ok", after |-> <<>>]
    /\ NoDispatch
    /\ \E data \in Files :
          /\ stream = FileStream_new([data |-> data, pos |-> 0])
          /\ hist = NoHistory(data)

FileNext == Stream_poll \/ Sink_start_send \/ Sink_poll_complete

FileSpec == FileInit /\ [][FileNext]_vars

\* What the event loop does for an accepted dispatch: it polls the returned
\* future, which runs the next closure or completes the pending step.
Progress(d) ==
    \/ before_call(d)
    \/ before_poll(d)
    \/ handler_call(d)
    \/ handler_poll(d)
    \/ after_call(d)
    \/ after_poll(d)
    \/ unwind(d)

\* Every step of Progress changes pc or running.
polled == <<pc, running>>

\* The event loop polls every future that can make progress, and every
\* invoked step and handler eventually completes or faults.
LiveSpec == Init /\ [][Next]_vars /\ \A d \in Dispatches : WF_polled(Progress(d))

\* ======================================================== the claims
Completed(d) == pc[d] = "Completed"

\* The positions of trace[d] holding a return of chain c with outcome tag.
RetsOf(d, c, tag) ==
    {p \in 1..Len(trace[d]) :
        /\ trace[d][p].ev = "ret"
        /\ trace[d][p].chain = c
        /\ trace[d][p].tag = tag}

Chains == {"before", "after"}

\* C1: in one call of a chain, once step k has short-circuited with
\* Err(Response), the invocation counters of steps k+1..N stay 0.
C1_StepsAfterShortCircuitNeverInvoked ==
    \A d \in Dispatches : \A c \in Chains : \A p \in RetsOf(d, c, "Err") :
        \A j \in (trace[d][p].i + 1)..Len(service[c]) : cnt[d][c][j] = 0

\* C1 witness: a finished dispatch whose first Request step of two
\* short-circuited.
C1_Witness ==
    \E d \in Dispatches :
        /\ Completed(d)
        /\ Len(service.before) = 2
        /\ \E p \in RetsOf(d, "before", "Err") : trace[d][p].i = 1
        /\ cnt[d].before = <<1, 0>>

\* C2: within one call of a chain the steps run strictly in list order:
\* step i+1 is invoked only right after step i returned Ok(payload') and
\* gets exactly payload'; each invocation has one outcome; every step up to
\* the first short-circuit is invoked exactly once; an Err(alt) ends the
\* chain and is its result unchanged.
C2_StepsInListOrderPayloadHandedOn ==
    \A d \in Dispatches : \A p \in 1..Len(trace[d]) :
        LET e == trace[d][p]
        IN  /\ (e.ev = "call" /\ e.chain \in Chains) =>
                  /\ e.step = service[e.chain][e.i]
                  /\ cnt[d][e.chain][e.i] = 1
                  /\ (e.chain = "before" /\ e.i = 1) => p = 1
                  /\ e.i > 1 =>
                        /\ p > 1
                        /\ trace[d][p - 1] = Ret(e.chain, e.i - 1, Ok(e.val))
                  /\ \A q \in 1..(p - 1) :
                        (trace[d][q].ev = "call" /\ trace[d][q].chain = e.chain)
                            => trace[d][q].i < e.i
            /\ e.ev = "ret" =>
                  /\ p > 1
                  /\ trace[d][p - 1].ev = "call"
                  /\ trace[d][p - 1].chain = e.chain
                  /\ trace[d][p - 1].i = e.i
            /\ (e.ev = "ret" /\ e.chain \in Chains /\ e.tag = "Err") =>
                  /\ p = Len(trace[d])
                  /\ \A j \in 1..e.i : cnt[d][e.chain][j] = 1
                  /\ Completed(d)
                  /\ out[d] = <<Ok(into(e.val))>>

\* C2 witness: a finished dispatch whose first Request step changed the
\* payload and whose second step was invoked with the changed payload.
C2_Witness ==
    \E d \in Dispatches :
        /\ Completed(d)
        /\ Len(service.before) = 2
        /\ Len(trace[d]) >= 4
        /\ trace[d][1].val.ext = None
        /\ trace[d][2].tag = "Ok"
        /\ trace[d][3].chain = "before" /\ trace[d][3].i = 2
        /\ trace[d][3].val.ext = trace[d][1].val.input

\* The last call or return recorded for dispatch d.
Last(d) == trace[d][Len(trace[d])]

\* The fixed response of a caught panic.
GenericFailure == [status |-> InternalServerError, body |-> "", hdr |-> 0]

\* C3: the future returned by RootService::call resolves at most once, it
\* has resolved exactly once when the dispatch is over, and it always
\* resolves on the success channel with a Response, never with an error.
C3_OneResponseOnSuccessChannel ==
    \A d \in Dispatches :
        /\ Len(out[d]) <= 1
        /\ Completed(d) <=> Len(out[d]) = 1
        /\ \A n \in 1..Len(out[d]) :
              /\ out[d][n].tag = "Ok"
              /\ DOMAIN out[d][n].val = {"status", "body", "hdr"}
        /\ (Len(trace[d]) > 0 /\ Last(d).ev = "ret" /\ Last(d).tag = "Err")
              => Completed(d)

\* C3 witness: one dispatch ended by a caught panic and another by a
\* deliberate Err(Response), each with its single response.
C3_Witness ==
    \E d, e \in Dispatches :
        /\ Completed(d) /\ Completed(e)
        /\ Last(d).tag = "Panic" /\ Len(out[d]) = 1
        /\ Last(e).tag = "Err" /\ Len(out[e]) = 1

\* C4: a panic raised by a step or by the handler never leaves the future
\* of RootService::call: the worker keeps running, the dispatch is on its
\* way to Completed, and its result is the generic 500 response.
C4_PanicCaughtAndMappedTo500 ==
    /\ workerAlive
    /\ \A d \in Dispatches :
          /\ \A n \in 1..Len(out[d]) : out[d][n].tag # "Panic"
          /\ \A c \in Chains \cup {"handler"} :
                RetsOf(d, c, "Panic") # {} =>
                    /\ pc[d] \in {"Faulted", "Completed"}
                    /\ Completed(d) => out[d] = <<Ok(GenericFailure)>>

\* C4 witness: the handler panicked after a Request step had run, and the
\* dispatch finished with 500.
C4_Witness ==
    \E d \in Dispatches :
        /\ Completed(d)
        /\ RetsOf(d, "before", "Ok") # {}
        /\ RetsOf(d, "handler", "Panic") # {}
        /\ out[d][1].val.status = InternalServerError

C6_ShortCircuitSkipsHandler ==
    \A d \in Dispatches : \A p \in RetsOf(d, "before", "Err") :
        /\ cnt[d].handler = 0
        /\ \A q \in 1..Len(trace[d]) : trace[d][q].chain = "before"
        /\ Completed(d)
        /\ out[d] = <<Ok(into(trace[d][p].val))>>
        /\ service.before = <<"pass", "deny">> =>
              /\ cnt[d].before = <<1, 1>>
              /\ out[d][1].val.status = Unauthorized

\* C6 witness: the chain [pass, deny] has run in a finished dispatch.
C6_Witness ==
    \E d \in Dispatches :
        /\ service.before = <<"pass", "deny">>
        /\ Completed(d)
        /\ cnt[d].before[1] = 1
        /\ cnt[d].handler = 0
        /\ out[d][1].val.status = Unauthorized

\* The Request that RootService::call builds for dispatch d.
BuiltRequest(d) ==
    [input |-> inbound[d], handle |-> RootService(d).handle,
     remote |-> RootService(d).remote_ip, ext |-> None]

\* C7: a chain without steps hands its payload on unchanged and invokes
\* nothing: with an empty Request chain the handler is the first thing
\* invoked and gets the Request as RootService::call built it; with an
\* empty Response chain the handler's Ok(res) is the dispatch result; with
\* both empty and a handler answering 200 "hi" the dispatch result is
\* 200 "hi".
C7_EmptyChainIsIdentity ==
    \A d \in Dispatches :
        /\ (Len(service.before) = 0 /\ Len(trace[d]) > 0) =>
              trace[d][1] = Call("handler", 1, service.handler, BuiltRequest(d))
        /\ (Len(service.after) = 0 /\ RetsOf(d, "handler", "Ok") # {}) =>
              /\ Last(d).chain = "handler"
              /\ Completed(d)
              /\ out[d] = <<Ok(into(Last(d).val))>>
        /\ (/\ Len(service.before) = 0
            /\ Len(service.after) = 0
            /\ service.handler = "ok"
            /\ Completed(d)) =>
              out[d] = <<Ok([status |-> 200, body |-> "hi", hdr |-> 0])>>

\* C7 witness: a dispatch with both chains empty has finished with the
\* handler's 200 "hi".
C7_Witness ==
    \E d \in Dispatches :
        /\ Len(service.before) = 0
        /\ Len(service.after) = 0
        /\ Completed(d)
        /\ Len(trace[d]) = 2
        /\ out[d][1].val.status = 200
        /\ out[d][1].val.body = "hi"

\* The partially built Response that RootService::call makes for d.
BuiltResponse(d) == [Response_new EXCEPT !.handle = RootService(d).handle]

RECURSIVE FoldRequest(_, _, _)
\* The Request chain run to its end on outcome o, from step i on.
FoldRequest(vec, i, o) ==
    IF i > Len(vec) \/ o.tag # "Ok"
    THEN o
    ELSE FoldRequest(vec, i + 1, MiddleWare_Request_call(vec[i], o.val))

RECURSIVE FoldResponse(_, _, _)
\* The Response chain run to its end on outcome o, from step i on.
FoldResponse(vec, i, o) ==
    IF i > Len(vec) \/ o.tag # "Ok"
    THEN o
    ELSE FoldResponse(vec, i + 1, MiddleWare_Response_call(vec[i], o.val))

\* The response dispatch d is expected to give when it runs alone: the
\* configured pipeline applied to its own inbound request.
Expected(d) ==
    LET a == FoldRequest(configured.before, 1, Ok(BuiltRequest(d)))
        h == IF a.tag = "Ok"
             THEN ArcService_call(configured.handler, a.val, BuiltResponse(d))
             ELSE a
        r == IF h.tag = "Ok" THEN FoldResponse(configured.after, 1, h) ELSE h
    IN  IF r.tag = "Panic" THEN GenericFailure ELSE into(r.val)

\* Dispatch d ended in a caught panic.
Faulted(d) == Completed(d) /\ Len(trace[d]) > 0 /\ Last(d).tag = "Panic"

\* C8: when a dispatch has ended in a caught panic, the worker still runs,
\* every other dispatch can still be submitted or take its next step, every
\* other finished dispatch has exactly the response it gives when run alone,
\* and the chains are as they were configured.
C8_FaultIsolatedFromOtherDispatches ==
    \A d \in Dispatches :
        Faulted(d) =>
            /\ workerAlive
            /\ service = configured
            /\ \A e \in Dispatches \ {d} :
                  /\ Completed(e) => out[e] = <<Ok(Expected(e))>>
                  /\ (~Completed(e) /\ running[e] = None) => ENABLED Step(e)
                  /\ running[e] # None => ENABLED Step(e)

\* C8 witness: one dispatch ended in a caught panic, another one under the
\* same chains finished with the handler's 200 response.
C8_Witness ==
    \E d, e \in Dispatches :
        /\ Faulted(d)
        /\ Completed(e)
        /\ Last(e).tag = "Ok"
        /\ out[e][1].val.status = 200

\* C9: no step is ever invoked through a Vec that its owner has already
\* dropped.
C9_StepInvokedThroughLiveListOnly ==
    \A d \in Dispatches : ~dangling[d]

\* C10: the Request a dispatch hands to its steps and to its handler is its
\* own: it carries the dispatch's own inbound data and remote address, its
\* extension is unset or the value the dispatch's own step attached, and
\* after a tag step ran the handler reads exactly that value.
C10_ExtensionIsPerDispatch ==
    \A d \in Dispatches : \A p \in 1..Len(trace[d]) :
        LET e == trace[d][p]
        IN  (e.ev = "call" /\ e.chain \in {"before", "handler"}) =>
                /\ e.val.input = inbound[d]
                /\ e.val.remote = RootService(d).remote_ip
                /\ e.val.ext \in {None, inbound[d]}
                /\ (/\ e.chain = "handler"
                    /\ \E q \in 1..(p - 1) :
                          trace[d][q].ev = "call" /\ trace[d][q].step = "tag")
                        => e.val.ext = inbound[d]

\* C10 witness: two dispatches with different inbound data are in their
\* handlers at the same time, each with the value its own step attached.
C10_Witness ==
    /\ inbound[1] # inbound[2]
    /\ pc[1] = "HandlerRunning" /\ pc[2] = "HandlerRunning"
    /\ cur[1].ext = inbound[1]
    /\ cur[2].ext = inbound[2]

\* The response of dispatch d under the service svc run alone.
ExpectedOf(svc, d) ==
    LET a == FoldRequest(svc.before, 1, Ok(BuiltRequest(d)))
        h == IF a.tag = "Ok"
             THEN ArcService_call(svc.handler, a.val, BuiltResponse(d))
             ELSE a
        r == IF h.tag = "Ok" THEN FoldResponse(svc.after, 1, h) ELSE h
    IN  IF r.tag = "Panic" THEN GenericFailure ELSE into(r.val)

\* Every Request step of the chain hands the request of d on unchanged.
PassThrough(d) ==
    \A i \in 1..Len(configured.before) :
        MiddleWare_Request_call(configured.before[i], BuiltRequest(d))
            = Ok(BuiltRequest(d))

\* C11: when all M >= 0 Request steps are pass-through for the request of a
\* dispatch, the handler gets the request as it was built and the dispatch
\* result is the one of the same handler with no Request chain before it.
C11_PassThroughChainEqualsDirectHandler ==
    \A d \in Dispatches :
        (inbound[d] # None /\ PassThrough(d)) =>
            /\ \A p \in 1..Len(trace[d]) :
                  (trace[d][p].ev = "call" /\ trace[d][p].chain = "handler")
                      => trace[d][p].val = BuiltRequest(d)
            /\ Completed(d) =>
                  out[d] = <<Ok(ExpectedOf([configured EXCEPT !.before = <<>>], d))>>

\* C11 witness: a dispatch has finished behind two pass-through steps that
\* both ran.
C11_Witness ==
    \E d \in Dispatches :
        /\ Len(configured.before) = 2
        /\ PassThrough(d)
        /\ Completed(d)
        /\ cnt[d].before = <<1, 1>>
        /\ cnt[d].handler = 1
        /\ out[d][1].val.status = 200

\* C12: running the chains never changes them: in every state, whatever
\* dispatches have run, are running, short-circuited or faulted, both Vecs
\* have the length, the steps and the order they were configured with.
C12_ChainDefinitionUnchanged ==
    /\ Len(service.before) = Len(configured.before)
    /\ Len(service.after) = Len(configured.after)
    /\ \A i \in 1..Len(configured.before) :
          service.before[i] = configured.before[i]
    /\ \A i \in 1..Len(configured.after) :
          service.after[i] = configured.after[i]
    /\ service.handler = configured.handler

\* C12 witness: two dispatches over chains with steps have finished, one by
\* a caught panic and one without.
C12_Witness ==
    /\ Len(service.before) >= 1
    /\ Len(service.after) >= 1
    /\ Completed(1) /\ Completed(2)
    /\ Last(1).tag = "Panic"
    /\ Last(2).chain = "after"

RunningStages == {"RequestChainRunning", "HandlerRunning", "ResponseChainRunning"}

Rank(stage) ==
    CASE stage = "Idle" -> 0
      [] stage = "Received" -> 1
      [] stage = "RequestChainRunning" -> 2
      [] stage = "HandlerRunning" -> 3
      [] stage = "ResponseChainRunning" -> 4
      [] stage = "Faulted" -> 5
      [] OTHER -> 6

\* One step of the system leaves dispatch d on the path of its stages.
StageStep(d) ==
    LET last == trace'[d][Len(trace'[d])]
    IN  /\ pc'[d] # pc[d] => Rank(pc'[d]) > Rank(pc[d])
        /\ (pc'[d] = "RequestChainRunning" /\ pc[d] # pc'[d]) =>
              pc[d] = "Received"
        /\ (pc'[d] = "HandlerRunning" /\ pc[d] # pc'[d]) =>
              /\ RetsOf(d, "before", "Err") = {}
              /\ RetsOf(d, "before", "Panic") = {}
              /\ \A i \in 1..Len(configured.before) :
                    \E p \in RetsOf(d, "before", "Ok") : trace[d][p].i = i
        /\ (pc'[d] = "ResponseChainRunning" /\ pc[d] # pc'[d]) =>
              /\ pc[d] = "HandlerRunning"
              /\ last.ev = "ret" /\ last.chain = "handler" /\ last.tag = "Ok"
        /\ (pc'[d] = "Faulted" /\ pc[d] # pc'[d]) =>
              /\ pc[d] \in RunningStages
              /\ last.ev = "ret" /\ last.tag = "Panic"
              /\ out'[d] = out[d]
        /\ pc[d] = "Faulted" => pc'[d] \in {"Faulted", "Completed"}
        /\ pc[d] = "Completed" =>
              /\ pc'[d] = "Completed"
              /\ out'[d] = out[d]
              /\ trace'[d] = trace[d]
        /\ out'[d] # out[d] =>
              /\ pc[d] # "Completed" /\ pc'[d] = "Completed"
              /\ IF pc[d] = "Faulted"
                 THEN out'[d] = <<Ok(GenericFailure)>>
                 ELSE /\ last.tag \in {"Ok", "Err"}
                      /\ out'[d] = <<Ok(into(last.val))>>

C14_ResponseChainResult ==
    \A d \in Dispatches :
        /\ \A p \in RetsOf(d, "after", "Err") :
              /\ \A j \in (trace[d][p].i + 1)..Len(configured.after) :
                    cnt[d].after[j] = 0
              /\ p = Len(trace[d])
              /\ Completed(d)
              /\ out[d] = <<Ok(into(trace[d][p].val))>>
        /\ (Completed(d) /\ Last(d).chain = "after" /\ Last(d).tag = "Ok") =>
              /\ Last(d).i = Len(configured.after)
              /\ \A j \in 1..Len(configured.after) : cnt[d].after[j] = 1
              /\ out[d] = <<Ok(into(Last(d).val))>>
        /\ \A p \in RetsOf(d, "handler", "Ok") :
              Completed(d) =>
                  LET r == FoldResponse(configured.after, 1, Ok(trace[d][p].val))
                  IN  out[d] = <<Ok(IF r.tag = "Panic"
                                   THEN GenericFailure
                                   ELSE into(r.val))>>

\* C14 witness: the first of two Response steps short-circuited in one
\* configuration, or two Response steps both ran to the end in another.
C14_Witness ==
    \E d \in Dispatches :
        /\ Completed(d)
        /\ Len(configured.after) = 2
        /\ \E p \in RetsOf(d, "after", "Err") : trace[d][p].i = 1
        /\ cnt[d].after = <<1, 0>>
        /\ out[d][1].val.status = 403

\* C15: whatever a dispatch invokes first, step or handler, gets a Request
\* that carries the remote address and the reactor handle of the
\* RootService that received it, and the Response kept for the handler
\* carries that handle too; so does every later Request step and handler.
C15_ContextAttachedBeforeFirstInvocation ==
    \A d \in Dispatches :
        Len(trace[d]) > 0 =>
            /\ trace[d][1].ev = "call"
            /\ trace[d][1].chain \in {"before", "handler"}
            /\ res[d].handle = RootService(d).handle
            /\ res[d].handle # None
            /\ \A p \in 1..Len(trace[d]) :
                  (trace[d][p].ev = "call"
                        /\ trace[d][p].chain \in {"before", "handler"}) =>
                      /\ trace[d][p].val.remote = RootService(d).remote_ip
                      /\ trace[d][p].val.handle = RootService(d).handle
                      /\ trace[d][p].val.remote # None

\* C15 witness: both dispatches have invoked their first step, each with
\* the address of its own connection.
C15_Witness ==
    /\ Len(trace[1]) = 1 /\ Len(trace[2]) = 1
    /\ trace[1][1].chain = "before"
    /\ trace[1][1].val.remote = "10.0.0.1"
    /\ trace[2][1].val.remote = "10.0.0.2"
    /\ trace[1][1].val.handle = "core"

\* C16: while the step or handler a dispatch invoked has not completed,
\* the dispatch is not Completed and has emitted nothing, nothing but that
\* completion moves it on, and every other dispatch can still take its
\* next step.
C16_PendingStepBlocksOnlyItsDispatch ==
    \A d \in Dispatches :
        (Len(trace[d]) > 0 /\ Last(d).ev = "call") =>
            /\ running[d] # None
            /\ ~Completed(d)
            /\ out[d] = <<>>
            /\ ~ENABLED (before_call(d) \/ handler_call(d) \/ after_call(d)
                            \/ unwind(d) \/ RootService_call(d))
            /\ \A e \in Dispatches \ {d} : ~Completed(e) => ENABLED Step(e)

\* C16 witness: one dispatch waits in its handler while the other one has
\* finished.
C16_Witness ==
    \E d, e \in Dispatches :
        /\ pc[d] = "HandlerRunning" /\ running[d] # None
        /\ Completed(e)
        /\ Len(out[e]) = 1

\* C17: under fair polling, where every invoked step and the handler
\* eventually completes or faults, every accepted dispatch eventually is
\* Completed with one Response.
C17_AcceptedDispatchCompletes ==
    \A d \in Dispatches :
        (pc[d] = "Received") ~>
            (Completed(d) /\ Len(out[d]) = 1 /\ out[d][1].tag = "Ok")

\* C17 witness: both dispatches were accepted and completed, one of them
\* through a fault, under chains of the full length.
C17_Witness ==
    /\ Len(configured.before) + Len(configured.after) = MaxSteps
    /\ Completed(1) /\ Completed(2)
    /\ Len(out[1]) = 1 /\ Len(out[2]) = 1
    /\ RetsOf(1, "after", "Panic") # {}
    /\ RetsOf(2, "after", "Ok") # {}

\* C18 (refuted by the code): a FileStream used only as a source returns
\* None only when it has emitted the whole content of the file, emits only
\* non-empty chunks, and returns a read error as Err.
C18_StreamYieldsWholeFile ==
    hist.used \subseteq {"stream"} =>
        /\ (hist.ret.op = "poll" /\ hist.ret.tag = "None") =>
              hist.emitted = hist.content
        /\ hist.ret.tag = "Some" => hist.ret.val # <<>>
        /\ hist.ret.io = "Err" => hist.ret.tag = "Err"

\* C19 (refuted by the code): a FileStream used only as a sink has, when
\* poll_complete returned Ready and flushed is true, written exactly the
\* accepted bytes, each once and in order.
C19_SinkWritesAcceptedBytesOnce ==
    (/\ hist.used \subseteq {"sink"}
     /\ hist.ret.op = "poll_complete"
     /\ hist.ret.tag = "Ready"
     /\ stream.flushed) =>
        hist.wrote = hist.sent

\* A step of start_send in which the pending data was not flushed.
Rejected ==
    /\ hist' # hist
    /\ hist'.ret.op = "start_send"
    /\ hist'.ret.io \in {"NotReady", "Err"}

\* C20: when flushed is false and the write of poll_complete is not ready,
\* start_send returns NotReady with the chunk it was given; when that write
\* fails, start_send returns the error; in both cases buffer and file are
\* as before and flushed stays false.  flushed is false exactly when a
\* chunk was accepted since the last successful poll_complete.
C20_StartSendRejectsWithoutEffect ==
    [][/\ Rejected =>
            /\ ~stream.flushed
            /\ hist'.ret.tag = hist'.ret.io
            /\ hist'.ret.tag = "NotReady" => hist'.ret.val = hist'.ret.arg
            /\ stream'.buf = stream.buf
            /\ stream'.file = stream.file
            /\ ~stream'.flushed
            /\ hist'.sent = hist.sent
       /\ (hist'.ret.op = "start_send" /\ stream.flushed) =>
            hist'.ret.tag = "Ready"
       /\ stream.flushed = ~hist.pending
       /\ stream'.flushed = ~hist'.pending]_vars

\* C20 witness: start_send handed back the chunk of two bytes while an
\* accepted chunk is still pending.
C20_Witness ==
    /\ hist.ret.op = "start_send"
    /\ hist.ret.tag = "NotReady"
    /\ hist.ret.val = <<"a", "b">>
    /\ stream.buf = <<"b">>
    /\ ~stream.flushed
    /\ hist.pending
====
